---- MODULE Spec2Model ----
(***************************************************************************)
(* concert-scraper: the title normalizer, the Event entity's derived       *)
(* values and the multi-day merge engine.                                  *)
(*                                                                         *)
(* Strings are sequences of character codes (ASCII), so that lower-casing, *)
(* the regular expressions of _normalize and Python's string ordering are  *)
(* computed character by character.  Dates are day ordinals, times of day  *)
(* are minutes after midnight, datetimes are minutes since day 0.  An      *)
(* optional field is <<>> (None) or <<v>>.                                 *)
(***************************************************************************)
EXTENDS Integers, Sequences, FiniteSets

VARIABLES
    pc,          \* "ready" before the function under study is applied, "done" after
    text,        \* input of _normalize
    norm,        \* _normalize(text), once computed
    in_events,   \* input of merge_multiday_events
    out_events,  \* its return value, once computed
    ev,          \* the Event whose derived datetimes are computed
    ev_dt,       \* [start |-> start_datetime, end |-> end_datetime] of ev, once computed
    ev_keys,     \* [key |-> normalized_key(), day_keys |-> covered_day_keys()] of ev
    raw_events,  \* the array of raw records the LLM backend returned to extract_events
    ex_args,     \* [venue_name, venue_location] given to extract_events
    extracted,   \* [raised, events]: how extract_events ended, once it has
    db,          \* the rows of table seen_events, in insertion order
    now,         \* the clock read by datetime('now')
    calls,       \* the mark_seen and is_seen calls made so far, with their outcomes
    cal_in,      \* the configuration and environment add_event runs in
    cal_out,     \* [raised, returned, written]: how add_event ended, once it has
    run,         \* the locals of one scrape run (_scrape_async)
    calendar,    \* the events written to the calendar, in order
    log,         \* what the run has called so far, and the store and calendar it started from
    fn_arg,      \* the argument of the helper function under study
    fn_result    \* its result, once computed

\* the variables of the operations modelled further down
baseVars == <<text, norm, in_events, out_events, ev, ev_dt>>
keysVars == <<ev_keys>>
extractVars == <<raw_events, ex_args, extracted>>
dbVars == <<db, now, calls>>
calVars == <<cal_in, cal_out>>
scrapeVars == <<run, calendar, log>>
helperVars == <<fn_arg, fn_result>>
restVars == <<keysVars, extractVars, dbVars, calVars, scrapeVars, helperVars>>

vars == <<pc, baseVars, restVars>>

(***************************************************************************)
(* Bounds                                                                  *)
(***************************************************************************)
MaxStrLen == 6
MaxEvents == 3
MaxDay == 3

(***************************************************************************)
(* Optional values                                                         *)
(***************************************************************************)
None == <<>>
Some(v) == <<v>>
IsSet(o) == o # <<>>
Val(o) == o[1]

(***************************************************************************)
(* Characters and strings                                                  *)
(***************************************************************************)
\* str.lower() on one ASCII character
LowerChar(c) == IF c \in 65..90 THEN c + 32 ELSE c

\* a sequence given as a function on 1..n, as the tuple of its elements
Seq1(f) == f \o <<>>

\* str.lower()
LowerStr(s) == Seq1([i \in 1..Len(s) |-> LowerChar(s[i])])

\* the class \s of the regular expressions, and what str.strip() strips
IsSpace(c) == c \in {9, 10, 11, 12, 13, 32}

\* the class [a-z0-9]
IsAlnum(c) == c \in 97..122 \/ c \in 48..57

RECURSIVE LStrip(_)
LStrip(s) ==
    IF s # <<>> /\ IsSpace(Head(s)) THEN LStrip(Tail(s)) ELSE s

RECURSIVE RStrip(_)
RStrip(s) ==
    IF s # <<>> /\ IsSpace(s[Len(s)]) THEN RStrip(SubSeq(s, 1, Len(s) - 1)) ELSE s

\* str.strip()
Strip(s) == RStrip(LStrip(s))

\* re.sub(r"^the\s+", "", t): one match at the start, \s+ greedy
StripThe(t) ==
    IF Len(t) >= 4 /\ SubSeq(t, 1, 3) = <<116, 104, 101>> /\ IsSpace(t[4])
    THEN LStrip(SubSeq(t, 4, Len(t)))
    ELSE t

\* re.sub(r"[^a-z0-9\s]", "", t)
RemovePunct(t) == SelectSeq(t, LAMBDA c : IsAlnum(c) \/ IsSpace(c))

\* re.sub(r"\s+", " ", t): every maximal run of whitespace becomes one space
RECURSIVE CollapseSpaces(_)
CollapseSpaces(t) ==
    IF t = <<>> THEN <<>>
    ELSE IF IsSpace(Head(t))
         THEN <<32>> \o CollapseSpaces(LStrip(t))
         ELSE <<Head(t)>> \o CollapseSpaces(Tail(t))

_normalize(s) ==
    LET t1 == Strip(LowerStr(s))
        t2 == StripThe(t1)
        t3 == RemovePunct(t2)
    IN  Strip(CollapseSpaces(t3))

(***************************************************************************)
(* The normalizer applied to bounded strings                               *)
(***************************************************************************)
\* t h e T space ! : enough for case, the leading article and punctuation
Alphabet == {116, 104, 101, 84, 32, 33}

Strings == UNION {[1..n -> Alphabet] : n \in 0..MaxStrLen}

IdleNorm == text = <<>> /\ norm = None
IdleMerge == in_events = <<>> /\ out_events = None
IdleEvent == ev = None /\ ev_dt = None
IdleKeys == ev_keys = None
IdleExtract == raw_events = <<>> /\ ex_args = None /\ extracted = None
IdleDb == db = <<>> /\ now = 0 /\ calls = <<>>
IdleCal == cal_in = None /\ cal_out = None
IdleScrape == run = None /\ calendar = <<>> /\ log = None
IdleHelper == fn_arg = None /\ fn_result = None
IdleRest == IdleKeys /\ IdleExtract /\ IdleDb /\ IdleCal /\ IdleScrape /\ IdleHelper

InitNorm ==
    /\ pc = "ready"
    /\ text \in Strings
    /\ norm = None
    /\ IdleMerge
    /\ IdleEvent
    /\ IdleRest

Normalize ==
    /\ pc = "ready"
    /\ norm' = Some(_normalize(text))
    /\ pc' = "done"
    /\ UNCHANGED <<text, in_events, out_events, ev, ev_dt, restVars>>

NextNorm == Normalize

SpecNorm == InitNorm /\ [][NextNorm]_vars

\* str.upper() on one ASCII character
UpperChar(c) == IF c \in 97..122 THEN c - 32 ELSE c

\* the strings that differ from s only by letter case
CaseVariants(s) ==
    {Seq1([i \in 1..Len(s) |-> IF i \in up THEN UpperChar(s[i]) ELSE LowerChar(s[i])]) :
        up \in SUBSET (1..Len(s))}

\* a punctuation character: neither a letter, a digit nor whitespace
IsPunct(c) == ~(c \in 65..90 \/ IsAlnum(c) \/ IsSpace(c))

\* s without the characters at the positions drop
Without(s, drop) ==
    LET keep == SelectSeq(Seq1([i \in 1..Len(s) |-> i]), LAMBDA i : i \notin drop)
    IN  Seq1([p \in 1..Len(keep) |-> s[keep[p]]])

\* the strings that differ from s only by punctuation characters s has and they lack
PunctVariants(s) ==
    {Without(s, drop) : drop \in SUBSET {i \in 1..Len(s) : IsPunct(s[i])}}

\* s with one leading "The "
WithThe(s) == <<84, 104, 101, 32>> \o s

\* C6: normalizing an already-normalized title changes nothing:
\* _normalize(_normalize(s)) = _normalize(s) for every string s.
NormalizeIdempotent ==
    pc = "done" /\ IsSet(norm) => _normalize(Val(norm)) = Val(norm)

\* C7: titles that differ only by letter case, by one leading "The " or by
\* punctuation characters have the same _normalize (stated for the titles
\* that normalize to something: a title with no letter or digit is left out).
NormalizeIgnoresCaseThePunct ==
    pc = "done" /\ IsSet(norm) /\ Val(norm) # <<>> =>
        /\ \A u \in CaseVariants(text) : _normalize(u) = Val(norm)
        /\ _normalize(WithThe(text)) = Val(norm)
        /\ \A u \in PunctVariants(text) : _normalize(u) = Val(norm)

(***************************************************************************)
(* Event (models.py) and the merge engine (merge.py)                       *)
(***************************************************************************)
\* An Event with the defaults of the model class: every optional field None,
\* artists empty, default_duration_hours 3.
Event(title, date, venue_name) ==
    [title |-> title, date |-> date, end_date |-> None,
     doors_time |-> None, show_time |-> None, end_time |-> None,
     artists |-> <<>>, price |-> None, ticket_url |-> None,
     description |-> None, venue_name |-> venue_name,
     venue_location |-> None, default_duration_hours |-> 3]

\* datetime.datetime.combine(d, t), in minutes since day 0
Combine(d, t) == d * 1440 + t

\* datetime.time(): the time of day of a datetime
TimeOf(dt) == dt % 1440

\* datetime.time(20, 0)
DefaultStart == 1200

\* Event.start_datetime.  A datetime.time is truthy whatever its value
\* (midnight included), so "if self.show_time" tests for None.
start_datetime(e) ==
    Combine(e.date,
            IF IsSet(e.show_time) THEN Val(e.show_time)
            ELSE IF IsSet(e.doors_time) THEN Val(e.doors_time)
            ELSE DefaultStart)

\* a mutation of end_datetime: an end_time at or before the start is not
\* moved to the next day
end_datetime_same_day(e) ==
    LET last_day == IF IsSet(e.end_date) THEN Val(e.end_date) ELSE e.date
    IN  IF IsSet(e.end_time)
        THEN Combine(last_day, Val(e.end_time))
        ELSE Combine(last_day, TimeOf(start_datetime(e))) + 60 * e.default_duration_hours

\* a mutation of end_datetime: the end is compared with the absolute start
end_datetime_vs_start(e) ==
    LET last_day == IF IsSet(e.end_date) THEN Val(e.end_date) ELSE e.date
    IN  IF IsSet(e.end_time)
        THEN LET end == Combine(last_day, Val(e.end_time))
             IN  IF end <= start_datetime(e) THEN end + 1440 ELSE end
        ELSE Combine(last_day, TimeOf(start_datetime(e))) + 60 * e.default_duration_hours

\* Event.end_datetime
end_datetime(e) ==
    LET last_day == IF IsSet(e.end_date) THEN Val(e.end_date) ELSE e.date
    IN  IF IsSet(e.end_time)
        THEN LET end == Combine(last_day, Val(e.end_time))
             IN  IF end <= Combine(last_day, TimeOf(start_datetime(e)))
                 THEN end + 1440
                 ELSE end
        ELSE Combine(last_day, TimeOf(start_datetime(e))) + 60 * e.default_duration_hours

\* Python's < on str: lexicographic on code points, a proper prefix is smaller
RECURSIVE StrLess(_, _)
StrLess(a, b) ==
    IF b = <<>> THEN FALSE
    ELSE IF a = <<>> THEN TRUE
    ELSE IF Head(a) # Head(b) THEN Head(a) < Head(b)
    ELSE StrLess(Tail(a), Tail(b))

\* sorted(s, key=...) / list.sort(key=...): the stable sort of s, lt[i][j]
\* telling whether the key of s[i] is less than the key of s[j].  Element i
\* goes behind every element with a smaller key and behind the earlier
\* elements with an equal key.
StableSort(s, lt) ==
    LET n == Len(s)
        rank(i) == Cardinality({j \in 1..n :
                       \/ lt[j][i]
                       \/ (~lt[i][j] /\ j < i)})
    IN  Seq1([p \in 1..n |-> s[CHOOSE i \in 1..n : rank(i) = p - 1]])

\* key=lambda e: e.date
DateLess(s) ==
    [i \in 1..Len(s) |-> [j \in 1..Len(s) |-> s[i].date < s[j].date]]

\* key=lambda e: (e.date, e.venue_name, e.title): tuples compare lexicographically
SortKeyLess(s) ==
    [i \in 1..Len(s) |-> [j \in 1..Len(s) |->
        \/ s[i].date < s[j].date
        \/ s[i].date = s[j].date /\ StrLess(s[i].venue_name, s[j].venue_name)
        \/ /\ s[i].date = s[j].date
           /\ s[i].venue_name = s[j].venue_name
           /\ StrLess(s[i].title, s[j].title)]]

\* a mutation of the grouping key: the venue alone
GroupKeyVenueOnly(e) == <<e.venue_name>>

\* key = (event.venue_name, _normalize(event.title))
GroupKey(e) == <<e.venue_name, _normalize(e.title)>>

\* a mutation of _flush_run: the run's first event is returned as it is
_flush_run_first_only(first, last) == first

\* a mutation of _flush_run: the first event's end_time is kept
_flush_run_first_end_time(first, last) ==
    IF first.date = last.date
    THEN first
    ELSE [first EXCEPT !.end_date = Some(last.date)]

_flush_run(first, last) ==
    IF first.date = last.date
    THEN first
    ELSE [first EXCEPT !.end_date = Some(last.date), !.end_time = last.end_time]

\* a mutation of the loop: the final run is not flushed
RECURSIVE RunLoopNoFinalFlush(_, _, _, _)
RunLoopNoFinalFlush(rest, run_start, run_end, acc) ==
    IF rest = <<>>
    THEN acc
    ELSE IF Head(rest).date = run_end.date + 1
         THEN RunLoopNoFinalFlush(Tail(rest), run_start, Head(rest), acc)
         ELSE RunLoopNoFinalFlush(Tail(rest), Head(rest), Head(rest),
                                  Append(acc, _flush_run(run_start, run_end)))

\* a mutation of the loop: a gap of one day still extends the run
RECURSIVE RunLoopBridging(_, _, _, _)
RunLoopBridging(rest, run_start, run_end, acc) ==
    IF rest = <<>>
    THEN Append(acc, _flush_run(run_start, run_end))
    ELSE IF Head(rest).date - run_end.date \in {1, 2}
         THEN RunLoopBridging(Tail(rest), run_start, Head(rest), acc)
         ELSE RunLoopBridging(Tail(rest), Head(rest), Head(rest),
                              Append(acc, _flush_run(run_start, run_end)))

\* the for loop of _merge_consecutive_runs over sorted_events[1:]
RECURSIVE RunLoop(_, _, _, _)
RunLoop(rest, run_start, run_end, acc) ==
    IF rest = <<>>
    THEN Append(acc, _flush_run(run_start, run_end))
    ELSE IF Head(rest).date = run_end.date + 1
         THEN RunLoop(Tail(rest), run_start, Head(rest), acc)
         ELSE RunLoop(Tail(rest), Head(rest), Head(rest),
                      Append(acc, _flush_run(run_start, run_end)))

_merge_consecutive_runs(sorted_events) ==
    IF sorted_events = <<>>
    THEN <<>>
    ELSE RunLoop(Tail(sorted_events), sorted_events[1], sorted_events[1], <<>>)

\* groups.values(): the groups in the order their keys were first inserted,
\* each holding its events in input order
Groups(evs) ==
    LET n == Len(evs)
        key == Seq1([i \in 1..n |-> GroupKey(evs[i])])
        index == Seq1([i \in 1..n |-> i])
        firsts == SelectSeq(index, LAMBDA i : \A j \in 1..(i - 1) : key[j] # key[i])
        members(k) == SelectSeq(index, LAMBDA i : key[i] = k)
    IN  Seq1([g \in 1..Len(firsts) |->
            LET m == members(key[firsts[g]])
            IN  Seq1([p \in 1..Len(m) |-> evs[m[p]]])])

\* a mutation of the loop over the groups: a group is not sorted by date
RECURSIVE ExtendAllUnsorted(_)
ExtendAllUnsorted(groups) ==
    IF groups = <<>> THEN <<>>
    ELSE _merge_consecutive_runs(Head(groups)) \o ExtendAllUnsorted(Tail(groups))

\* result.extend(...) over the groups
RECURSIVE ExtendAll(_)
ExtendAll(groups) ==
    IF groups = <<>> THEN <<>>
    ELSE _merge_consecutive_runs(StableSort(Head(groups), DateLess(Head(groups))))
             \o ExtendAll(Tail(groups))

\* a mutation of merge_multiday_events: the result is not sorted
merge_multiday_events_unsorted(evs) == ExtendAll(Groups(evs))

merge_multiday_events(evs) ==
    LET result == ExtendAll(Groups(evs))
    IN  StableSort(result, SortKeyLess(result))

(***************************************************************************)
(* The merge engine applied to bounded inputs                              *)
(***************************************************************************)
\* what one venue page lists: <<venue_name, title>>.  Venue "A" lists "Fest"
\* and "fest!" (one normalized title) and "Gig"; venue "B" lists "Fest".
Listings ==
    { <<(<<65>>), (<<70, 101, 115, 116>>)>>,
      <<(<<65>>), (<<102, 101, 115, 116, 33>>)>>,
      <<(<<65>>), (<<71, 105, 103>>)>>,
      <<(<<66>>), (<<70, 101, 115, 116>>)>> }

Days == 1..MaxDay

\* single-day records that differ in the identity fields
IdentityEvents ==
    {Event(l[2], d, l[1]) : l \in Listings, d \in Days}

\* single-day records of one group that differ in title and end_time (22:00)
RunEvents ==
    {[Event(l[2], d, l[1]) EXCEPT !.end_time = t] :
        l \in {l \in Listings : l[1] = <<65>> /\ l[2] # <<71, 105, 103>>},
        d \in Days, t \in {None, Some(1320)}}

InitMerge ==
    /\ pc = "ready"
    /\ in_events \in UNION {[1..n -> IdentityEvents] : n \in 0..MaxEvents}
    /\ out_events = None
    /\ IdleNorm
    /\ IdleEvent
    /\ IdleRest

Merge ==
    /\ pc = "ready"
    /\ out_events' = Some(merge_multiday_events(in_events))
    /\ pc' = "done"
    /\ UNCHANGED <<text, norm, in_events, ev, ev_dt, restVars>>

NextMerge == Merge

SpecMerge == InitMerge /\ [][NextMerge]_vars

InitRun ==
    /\ pc = "ready"
    /\ in_events \in UNION {[1..n -> RunEvents] : n \in 0..MaxEvents}
    /\ out_events = None
    /\ IdleNorm
    /\ IdleEvent
    /\ IdleRest

SpecRun == InitRun /\ [][NextMerge]_vars

(***************************************************************************)
(* Properties of the merge engine                                          *)
(***************************************************************************)
Out == Val(out_events)

Merged == pc = "done" /\ IsSet(out_events)

\* the group of each event of a sequence: <<venue_name, normalized title>>
GroupOf(evs) ==
    Seq1([i \in 1..Len(evs) |-> <<evs[i].venue_name, _normalize(evs[i].title)>>])

SingleDay(evs) == \A i \in 1..Len(evs) : evs[i].end_date = None

\* the dates are pairwise distinct within each group (g being GroupOf(evs))
DistinctDates(evs, g) ==
    \A i, j \in 1..Len(evs) : i < j /\ g[i] = g[j] => evs[i].date # evs[j].date

\* the last calendar day an event covers
LastDay(e) == IF IsSet(e.end_date) THEN Val(e.end_date) ELSE e.date

\* the dates of the events of group k (g being GroupOf(evs))
GroupDates(evs, g, k) ==
    {evs[i].date : i \in {i \in 1..Len(evs) : g[i] = k}}

\* a..b is a maximal run of consecutive days of the set D
IsMaximalRun(D, a, b) ==
    /\ a <= b
    /\ \A d \in a..b : d \in D
    /\ (a - 1) \notin D
    /\ (b + 1) \notin D

\* what the claim expects of the event o emitted for the run a..b
IsRunEvent(o, a, b) ==
    /\ o.date = a
    /\ o.end_date = (IF a = b THEN None ELSE Some(b))

\* C1: for single-day inputs whose dates are pairwise distinct within each
\* group, the output holds exactly one event per maximal run of consecutive
\* days of each group, with date the run's first day and end_date the run's
\* last day (unset for a one-day run), and no other event.
OneEventPerRun ==
    Merged =>
        LET gi == GroupOf(in_events)
            go == GroupOf(Out)
        IN  SingleDay(in_events) /\ DistinctDates(in_events, gi) =>
              /\ \A k \in {gi[i] : i \in 1..Len(in_events)} :
                   LET D == GroupDates(in_events, gi, k)
                   IN  \A a, b \in D :
                         IsMaximalRun(D, a, b) =>
                           Cardinality({o \in 1..Len(Out) :
                               go[o] = k /\ IsRunEvent(Out[o], a, b)}) = 1
              /\ \A o \in 1..Len(Out) :
                   /\ IsMaximalRun(GroupDates(in_events, gi, go[o]),
                                   Out[o].date, LastDay(Out[o]))
                   /\ IsRunEvent(Out[o], Out[o].date, LastDay(Out[o]))

\* three consecutive days of one title at one venue became one event 1..3
OneEventPerRunWitness ==
    /\ Merged
    /\ SingleDay(in_events) /\ DistinctDates(in_events, GroupOf(in_events))
    /\ Len(in_events) = 3
    /\ Len(Out) = 1
    /\ Out[1].date = 1 /\ Out[1].end_date = Some(3)

\* C2: for single-day inputs, every calendar day from date through end_date
\* of every output event is the date of an input event of the same group; an
\* input event with no same-group event on the day before or after stays a
\* standalone event with end_date unset.
NeverBridgesGap ==
    Merged /\ SingleDay(in_events) =>
        LET gi == GroupOf(in_events)
            go == GroupOf(Out)
        IN  /\ \A o \in 1..Len(Out) :
                 LET D == GroupDates(in_events, gi, go[o])
                 IN  \A d \in Out[o].date..LastDay(Out[o]) : d \in D
            /\ \A i \in 1..Len(in_events) :
                 LET D == GroupDates(in_events, gi, gi[i])
                     d == in_events[i].date
                 IN  (d - 1) \notin D /\ (d + 1) \notin D =>
                       /\ \E o \in 1..Len(Out) : go[o] = gi[i] /\ Out[o].date = d
                       /\ \A o \in 1..Len(Out) :
                             go[o] = gi[i] /\ Out[o].date = d => Out[o].end_date = None

\* two same-group events two days apart, nothing between, both came out standalone
NeverBridgesGapWitness ==
    /\ Merged /\ SingleDay(in_events)
    /\ Len(in_events) = 2
    /\ GroupOf(in_events)[1] = GroupOf(in_events)[2]
    /\ in_events[2].date = in_events[1].date + 2
    /\ Len(Out) = 2
    /\ \A o \in 1..2 : Out[o].end_date = None

\* C3: no two output events of one group cover a common calendar day, for
\* every input, several records of one group on one date included.
OneRecordPerOccurrence ==
    Merged =>
        LET go == GroupOf(Out)
        IN  \A j, k \in 1..Len(Out) :
              j < k /\ go[j] = go[k] =>
                \/ LastDay(Out[j]) < Out[k].date
                \/ LastDay(Out[k]) < Out[j].date

\* C4: the event emitted for a run of two or more events is the run's first
\* (earliest) input event in every field but end_date and end_time; its
\* end_date is the last event's date and its end_time the last event's
\* end_time, also when that is unset.
RunKeepsFirstEventFields ==
    Merged =>
        LET gi == GroupOf(in_events)
            go == GroupOf(Out)
        IN  SingleDay(in_events) =>
              \A o \in 1..Len(Out) :
                IsSet(Out[o].end_date) =>
                  \E f, l \in 1..Len(in_events) :
                    /\ gi[f] = go[o] /\ gi[l] = go[o]
                    /\ in_events[f].date = Out[o].date
                    /\ in_events[l].date = Val(Out[o].end_date)
                    /\ in_events[f].date < in_events[l].date
                    /\ Out[o] = [in_events[f] EXCEPT
                                    !.end_date = Some(in_events[l].date),
                                    !.end_time = in_events[l].end_time]

\* a run whose first event had an end_time and whose last one had none, the
\* two titles being different spellings
RunKeepsFirstEventFieldsWitness ==
    /\ Merged
    /\ Len(in_events) = 2 /\ Len(Out) = 1
    /\ in_events[2].date + 1 = in_events[1].date
    /\ IsSet(in_events[2].end_time)
    /\ ~IsSet(in_events[1].end_time)
    /\ in_events[1].title # in_events[2].title
    /\ Out[1].title = in_events[2].title
    /\ Out[1].end_time = None
    /\ Out[1].end_date = Some(in_events[1].date)

\* C5: the output events of a group are exactly the output of merging the
\* input events of that group alone.
GroupsMergeAlone ==
    Merged =>
        LET gi == GroupOf(in_events)
            go == GroupOf(Out)
            Only(evs, g, k) ==
                LET m == SelectSeq(Seq1([i \in 1..Len(evs) |-> i]), LAMBDA i : g[i] = k)
                IN  Seq1([p \in 1..Len(m) |-> evs[m[p]]])
        IN  \A k \in {gi[i] : i \in 1..Len(in_events)} :
              Only(Out, go, k) = merge_multiday_events(Only(in_events, gi, k))

\* days 1, 2, 3 of three different groups (two venues, two titles at one
\* venue) stayed three events
GroupsMergeAloneWitness ==
    /\ Merged
    /\ Len(in_events) = 3
    /\ Cardinality({GroupOf(in_events)[i] : i \in 1..3}) = 3
    /\ \A i \in 1..3 : in_events[i].date = i
    /\ Len(Out) = 3

Injective(n) ==
    {p \in [1..n -> 1..n] : \A i, j \in 1..n : i # j => p[i] # p[j]}

\* (date, venue_name, title) of a is less than or equal to that of b
TripleLeq(a, b) ==
    \/ a.date < b.date
    \/ a.date = b.date /\ StrLess(a.venue_name, b.venue_name)
    \/ a.date = b.date /\ a.venue_name = b.venue_name /\ StrLess(a.title, b.title)
    \/ a.date = b.date /\ a.venue_name = b.venue_name /\ a.title = b.title

Ascending(evs) ==
    \A k \in 1..(Len(evs) - 1) : TripleLeq(evs[k], evs[k + 1])

\* C8: when the dates are pairwise distinct within every group, the output is
\* the same sequence for every permutation of the input.  Every input is a
\* permutation of the input that lists the same events in ascending order, so
\* the property is stated at that one: all its permutations give its output.
InputOrderIrrelevant ==
    Merged /\ Ascending(in_events) /\ DistinctDates(in_events, GroupOf(in_events)) =>
        \A p \in Injective(Len(in_events)) :
            merge_multiday_events(Seq1([i \in 1..Len(in_events) |-> in_events[p[i]]])) = Out

\* an event of one group and a two-day run of another were merged
InputOrderIrrelevantWitness ==
    /\ Merged /\ Ascending(in_events)
    /\ DistinctDates(in_events, GroupOf(in_events))
    /\ Len(in_events) = 3
    /\ Len(Out) = 2
    /\ \E o \in 1..2 : IsSet(Out[o].end_date)

\* C9: the returned sequence is sorted ascending by (date, venue_name, title).
OutputSorted ==
    Merged => Ascending(Out)

\* an input in descending order of date, of venue and of title
OutputSortedWitness ==
    /\ Merged
    /\ Len(in_events) = 3 /\ Len(Out) = 3
    /\ \A i \in 1..2 : ~TripleLeq(in_events[i], in_events[i + 1])
    /\ in_events[1].date = in_events[2].date
    /\ in_events[1].venue_name # in_events[2].venue_name

(***************************************************************************)
(* The derived datetimes of bounded Events                                 *)
(***************************************************************************)
\* 00:00, 01:00, 19:00, 21:00, 23:00
TimesOfDay == {0, 60, 1140, 1260, 1380}

OptionalTimes == {None} \cup {Some(t) : t \in TimesOfDay}

\* Events of every start, end and duration; end_date may precede date, which
\* construction does not reject
DatedEvents ==
    {[Event(<<71, 105, 103>>, d, <<65>>) EXCEPT
          !.end_date = ed, !.doors_time = dt, !.show_time = st,
          !.end_time = et, !.default_duration_hours = h] :
        d \in Days, ed \in {None} \cup {Some(x) : x \in Days},
        dt \in OptionalTimes, st \in OptionalTimes, et \in OptionalTimes,
        h \in {0, 3, 6}}

InitEvent ==
    /\ pc = "ready"
    /\ ev \in {Some(e) : e \in DatedEvents}
    /\ ev_dt = None
    /\ IdleNorm
    /\ IdleMerge
    /\ IdleRest

ComputeDatetimes ==
    /\ pc = "ready"
    /\ ev_dt' = Some([start |-> start_datetime(Val(ev)), end |-> end_datetime(Val(ev))])
    /\ pc' = "done"
    /\ UNCHANGED <<text, norm, in_events, out_events, ev, restVars>>

NextEvent == ComputeDatetimes

SpecEvent == InitEvent /\ [][NextEvent]_vars

\* C10: with L the end_date if set, else the date, and S the time of day of
\* start_datetime: if end_time is set, end_datetime is L at end_time, one day
\* later exactly when end_time <= S; if end_time is unset, end_datetime is L
\* at S plus default_duration_hours hours.
EndDatetimeRule ==
    pc = "done" /\ IsSet(ev_dt) =>
        LET e == Val(ev)
            L == IF e.end_date # None THEN e.end_date[1] ELSE e.date
            S == Val(ev_dt).start - 1440 * e.date
        IN  /\ S \in 0..1439
            /\ S = (IF e.show_time # None THEN e.show_time[1]
                    ELSE IF e.doors_time # None THEN e.doors_time[1]
                    ELSE 20 * 60)
            /\ e.end_time # None /\ e.end_time[1] <= S =>
                   Val(ev_dt).end = 1440 * (L + 1) + e.end_time[1]
            /\ e.end_time # None /\ e.end_time[1] > S =>
                   Val(ev_dt).end = 1440 * L + e.end_time[1]
            /\ e.end_time = None =>
                   Val(ev_dt).end = 1440 * L + S + 60 * e.default_duration_hours

\* a multi-day event from 21:00 to 01:00 ends the day after its last day
EndDatetimeRuleWitness ==
    /\ pc = "done" /\ IsSet(ev_dt)
    /\ Val(ev).date = 1 /\ Val(ev).end_date = Some(3)
    /\ Val(ev).show_time = Some(1260) /\ Val(ev).end_time = Some(60)
    /\ Val(ev_dt).end = 1440 * 4 + 60

(***************************************************************************)
(* The identity keys of an Event (models.py)                               *)
(***************************************************************************)
\* two decimal digits
Digits2(n) == <<48 + (n \div 10), 48 + (n % 10)>>

\* date.isoformat(), "YYYY-MM-DD": day 1 is 2025-06-29, so that the first
\* days run across the end of a month
IsoFormat(d) ==
    IF d <= 2
    THEN <<50, 48, 50, 53, 45, 48, 54, 45>> \o Digits2(28 + d)
    ELSE <<50, 48, 50, 53, 45, 48, 55, 45>> \o Digits2(d - 2)

\* a mutation of normalized_key: the date portion is the start date alone
normalized_key_start_only(e) ==
    e.venue_name \o <<124>> \o IsoFormat(e.date) \o <<124>> \o _normalize(e.title)

\* a mutation of normalized_key: the date portion is always a range
normalized_key_always_range(e) ==
    LET last == IF IsSet(e.end_date) THEN Val(e.end_date) ELSE e.date
    IN  e.venue_name \o <<124>> \o IsoFormat(e.date) \o <<46, 46>> \o IsoFormat(last)
            \o <<124>> \o _normalize(e.title)

\* Event.normalized_key: f"{venue_name}|{date_part}|{_normalize(title)}".
\* A datetime.date is always truthy, so "self.end_date and ..." tests for None.
normalized_key(e) ==
    LET date_part ==
            IF IsSet(e.end_date) /\ Val(e.end_date) # e.date
            THEN IsoFormat(e.date) \o <<46, 46>> \o IsoFormat(Val(e.end_date))
            ELSE IsoFormat(e.date)
    IN  e.venue_name \o <<124>> \o date_part \o <<124>> \o _normalize(e.title)

\* a mutation of the loop of covered_day_keys: the last day is left out
RECURSIVE DayKeysLoopExclusive(_, _, _, _)
DayKeysLoopExclusive(e, d, last, keys) ==
    IF d < last
    THEN DayKeysLoopExclusive(e, d + 1, last,
             Append(keys, e.venue_name \o <<124>> \o IsoFormat(d) \o <<124>>
                              \o _normalize(e.title)))
    ELSE keys

\* the while loop of covered_day_keys
RECURSIVE DayKeysLoop(_, _, _, _)
DayKeysLoop(e, d, last, keys) ==
    IF d <= last
    THEN DayKeysLoop(e, d + 1, last,
             Append(keys, e.venue_name \o <<124>> \o IsoFormat(d) \o <<124>>
                              \o _normalize(e.title)))
    ELSE keys

\* Event.covered_day_keys
covered_day_keys(e) ==
    DayKeysLoop(e, e.date, IF IsSet(e.end_date) THEN Val(e.end_date) ELSE e.date, <<>>)

\* Event defines neither __eq__ nor __hash__: == is the equality of the model
\* class, which compares the two objects field by field
EventEq(a, b) == a = b

\* venue names "A", "A..", "A|2025-06-29" and "A|2025-06-29."; titles "Gig",
\* "gig!" and "G..g"; price unset or "$"
KeyEvents ==
    {[Event(t, d, v) EXCEPT !.end_date = ed, !.price = p] :
        t \in {<<71, 105, 103>>, <<103, 105, 103, 33>>, <<71, 46, 46, 103>>},
        d \in Days,
        v \in {<<65>>, <<65, 46, 46>>, <<65, 124>> \o IsoFormat(1),
               <<65, 124>> \o IsoFormat(1) \o <<46>>},
        ed \in {None} \cup {Some(x) : x \in Days},
        p \in {None, Some(<<36>>)}}

InitKeys ==
    /\ pc = "ready"
    /\ IdleHelper
    /\ ev \in {Some(e) : e \in KeyEvents}
    /\ ev_dt = None
    /\ ev_keys = None
    /\ IdleNorm
    /\ IdleMerge
    /\ IdleExtract
    /\ IdleDb
    /\ IdleCal
    /\ IdleScrape

ComputeKeys ==
    /\ pc = "ready"
    /\ ev_keys' = Some([key |-> normalized_key(Val(ev)),
                        day_keys |-> covered_day_keys(Val(ev))])
    /\ pc' = "done"
    /\ UNCHANGED <<baseVars, helperVars, extractVars, dbVars, calVars, scrapeVars>>

NextKeys == ComputeKeys

SpecKeys == InitKeys /\ [][NextKeys]_vars

KeysDone == pc = "done" /\ IsSet(ev_keys)

\* sub occurs in s
Contains(s, sub) ==
    \E i \in 0..(Len(s) - Len(sub)) : SubSeq(s, i + 1, i + Len(sub)) = sub

\* "venue_name|day|normalized_title"
DayKey(e, day) ==
    e.venue_name \o <<124>> \o IsoFormat(day) \o <<124>> \o _normalize(e.title)

\* C11: for an Event whose end_date is unset or >= date, covered_day_keys()
\* holds exactly one key per calendar day from date through end_date, in
\* ascending day order, each "venue_name|day|normalized_title", which is the
\* normalized_key() of a single-day event on that day; for a single-day
\* event the result is [normalized_key()].
CoveredDayKeysPerDay ==
    KeysDone =>
        LET e == Val(ev)
            last == IF e.end_date = None THEN e.date ELSE e.end_date[1]
            keys == Val(ev_keys).day_keys
        IN  last >= e.date =>
              /\ Len(keys) = last - e.date + 1
              /\ \A i \in 1..Len(keys) :
                    /\ keys[i] = DayKey(e, e.date + i - 1)
                    /\ keys[i] = normalized_key(
                           [e EXCEPT !.date = e.date + i - 1, !.end_date = None])
              /\ last = e.date => keys = <<Val(ev_keys).key>>

\* a three-day event across the end of the month has three keys
CoveredDayKeysPerDayWitness ==
    /\ KeysDone
    /\ Val(ev).date = 1 /\ Val(ev).end_date = Some(3)
    /\ Len(Val(ev_keys).day_keys) = 3
    /\ Val(ev_keys).day_keys[3] = <<65, 124>> \o IsoFormat(3) \o <<124, 103, 105, 103>>

MultiDay(e) == IsSet(e.end_date) /\ Val(e.end_date) # e.date

\* C12 as stated: the key of a multi-day event contains "date..end_date" and
\* the key of a single-day event contains no ".." anywhere.
KeyRangeOnlyWhenMultiDay ==
    KeysDone =>
        LET e == Val(ev)
            key == Val(ev_keys).key
        IN  /\ MultiDay(e) =>
                 Contains(key, IsoFormat(e.date) \o <<46, 46>> \o IsoFormat(Val(e.end_date)))
            /\ ~MultiDay(e) => ~Contains(key, <<46, 46>>)

\* C12, amended: the key of a multi-day event contains "date..end_date", and
\* the key of a single-day event is the venue_name followed by a part,
\* "|date|normalized title", that contains no "..".
KeyRangeOnlyWhenMultiDayBehindVenue ==
    KeysDone =>
        LET e == Val(ev)
            key == Val(ev_keys).key
            n == Len(e.venue_name)
        IN  /\ MultiDay(e) =>
                 Contains(key, IsoFormat(e.date) \o <<46, 46>> \o IsoFormat(Val(e.end_date)))
            /\ ~MultiDay(e) =>
                 /\ SubSeq(key, 1, n) = e.venue_name
                 /\ ~Contains(SubSeq(key, n + 1, Len(key)), <<46, 46>>)

\* a single-day event (end_date equal to date) at venue "A..", title "G..g"
KeyRangeOnlyWhenMultiDayWitness ==
    /\ KeysDone
    /\ Val(ev).venue_name = <<65, 46, 46>>
    /\ Val(ev).title = <<71, 46, 46, 103>>
    /\ Val(ev).end_date = Some(Val(ev).date)
    /\ Contains(Val(ev_keys).key, <<46, 46>>)

\* C14: two Events compare equal if and only if their normalized_key()
\* values are equal.
EqualIffSameKey ==
    KeysDone =>
        \A b \in KeyEvents :
            EventEq(Val(ev), b) <=> normalized_key(b) = Val(ev_keys).key

(***************************************************************************)
(* extract_events (extractor.py): raw records to validated Events          *)
(***************************************************************************)
MaxRaw == 2

\* [\x00-\x08\x0b\x0c\x0e-\x1f\x7f]
IsControl(c) == c \in (0..8) \cup {11, 12} \cup (14..31) \cup {127}

\* re.sub(r"[\x00-\x08\x0b\x0c\x0e-\x1f\x7f]", "", val)
StripControl(s) == SelectSeq(s, LAMBDA c : ~IsControl(c))

\* the validation of a date field given as a string: the date whose ISO
\* form the string is, None when there is none
ParseDate(s) ==
    IF \E d \in 1..33 : IsoFormat(d) = s
    THEN Some(CHOOSE d \in 1..33 : IsoFormat(d) = s)
    ELSE None

\* Event(**raw) for a raw object whose string values are sanitised and whose
\* venue fields are set: None when validation fails. title and date are
\* required (a missing one fails), date must parse, and title is a plain
\* str field: any string validates, the empty one included.
ConstructEvent(raw, venue_name, venue_location) ==
    IF ~IsSet(raw.title) \/ ~IsSet(raw.date) THEN None
    ELSE LET d == ParseDate(StripControl(Val(raw.date)))
         IN  IF ~IsSet(d) THEN None
             ELSE Some([Event(StripControl(Val(raw.title)), Val(d), venue_name)
                           EXCEPT !.venue_location = Some(venue_location)])

\* the loop of extract_events. An element that is not an object has no
\* .items(): the AttributeError is caught, and the handler's raw.get(...)
\* raises AttributeError again, which leaves extract_events.
RECURSIVE ExtractLoop(_, _, _, _)
ExtractLoop(raws, i, args, events) ==
    IF i > Len(raws) THEN [raised |-> FALSE, events |-> events]
    ELSE IF ~raws[i].is_object THEN [raised |-> TRUE, events |-> <<>>]
    ELSE LET e == ConstructEvent(raws[i], args.venue_name, args.venue_location)
         IN  IF IsSet(e)
             THEN ExtractLoop(raws, i + 1, args, Append(events, Val(e)))
             ELSE ExtractLoop(raws, i + 1, args, events)

\* extract_events, from the array the LLM backend returned
extract_events(raws, args) == ExtractLoop(raws, 1, args, <<>>)

\* the elements of the LLM array: objects with title missing, "", "Gig" or
\* "\x07", and date missing, "2025-06-29", "2025-06-30" or "not-a-date";
\* and an element that is not an object
RawRecords ==
    {[is_object |-> TRUE, title |-> t, date |-> d] :
        t \in {None, Some(<<>>), Some(<<71, 105, 103>>), Some(<<7>>)},
        d \in {None, Some(IsoFormat(1)), Some(IsoFormat(2)),
               Some(<<110, 111, 116, 45, 97, 45, 100, 97, 116, 101>>)}}
    \cup {[is_object |-> FALSE, title |-> None, date |-> None]}

\* venue names "A" and "" (VenueConfig.name is a plain str), location "X"
ExtractArgs == {[venue_name |-> v, venue_location |-> <<88>>] : v \in {<<65>>, <<>>}}

InitExtract ==
    /\ pc = "ready"
    /\ IdleHelper
    /\ raw_events \in UNION {[1..n -> RawRecords] : n \in 0..MaxRaw}
    /\ ex_args \in {Some(a) : a \in ExtractArgs}
    /\ extracted = None
    /\ IdleNorm
    /\ IdleMerge
    /\ IdleEvent
    /\ IdleKeys
    /\ IdleDb
    /\ IdleCal
    /\ IdleScrape

Extract ==
    /\ pc = "ready"
    /\ extracted' = Some(extract_events(raw_events, Val(ex_args)))
    /\ pc' = "done"
    /\ UNCHANGED <<baseVars, helperVars, keysVars, raw_events, ex_args, dbVars, calVars, scrapeVars>>

NextExtract == Extract

SpecExtract == InitExtract /\ [][NextExtract]_vars

Extracted == pc = "done" /\ IsSet(extracted)

\* C13: a record whose title is empty or missing, or whose date is missing
\* or does not parse, yields no Event, and so does every record when the
\* venue_name is empty: no returned Event has an empty title or venue_name.
NoEmptyTitleOrVenue ==
    Extracted /\ ~Val(extracted).raised =>
        \A i \in 1..Len(Val(extracted).events) :
            /\ Val(extracted).events[i].title # <<>>
            /\ Val(extracted).events[i].venue_name # <<>>

\* the records that validate: objects with a title and a date that parses
Validates(raw) ==
    /\ raw.is_object
    /\ raw.title # None
    /\ raw.date # None
    /\ \E d \in Days : IsoFormat(d) = StripControl(raw.date[1])

RECURSIVE ValidIndices(_, _)
ValidIndices(raws, i) ==
    IF i > Len(raws) THEN <<>>
    ELSE IF Validates(raws[i]) THEN <<i>> \o ValidIndices(raws, i + 1)
    ELSE ValidIndices(raws, i + 1)

\* C15: extract_events does not raise and returns, in input order, one
\* Event for each raw record that validates and none for the others, also
\* when an element of the array is not an object.
SkipsInvalidRecords ==
    Extracted =>
        LET idx == ValidIndices(raw_events, 1)
            res == Val(extracted)
        IN  /\ ~res.raised
            /\ Len(res.events) = Len(idx)
            /\ \A k \in 1..Len(idx) :
                  /\ res.events[k].title = StripControl(raw_events[idx[k]].title[1])
                  /\ IsoFormat(res.events[k].date) = StripControl(raw_events[idx[k]].date[1])

(***************************************************************************)
(* The seen store (db.py): table seen_events                               *)
(***************************************************************************)
MaxCalls == 3
MaxClock == 2

\* the row with the given key: SELECT ... WHERE normalized_key = ?
HasKey(rows, k) == \E r \in 1..Len(rows) : rows[r].normalized_key = k

\* INSERT of one row under the UNIQUE constraint on normalized_key, with
\* SQLite's conflict clause: without one a conflict raises IntegrityError,
\* OR IGNORE skips the row, OR REPLACE deletes the old row first.
\* AUTOINCREMENT never reuses an id.
Insert(rows, row, next_id, on_conflict) ==
    IF ~HasKey(rows, row.normalized_key)
    THEN [raised |-> FALSE, rows |-> Append(rows, [row EXCEPT !.id = next_id])]
    ELSE CASE on_conflict = "ignore" -> [raised |-> FALSE, rows |-> rows]
           [] on_conflict = "replace" ->
                [raised |-> FALSE,
                 rows |-> Append(SelectSeq(rows,
                                     LAMBDA x : x.normalized_key # row.normalized_key),
                                 [row EXCEPT !.id = next_id])]
           [] OTHER -> [raised |-> TRUE, rows |-> rows]

\* the row mark_seen inserts at time t; first_seen and last_seen default to
\* datetime('now')
NewRow(key, venue_name, event_title, event_date, t) ==
    [id |-> 0, normalized_key |-> key, venue_name |-> venue_name,
     event_title |-> event_title, event_date |-> event_date,
     calendar_event_id |-> <<>>, first_seen |-> t, last_seen |-> t]

\* a mutation of mark_seen: INSERT OR REPLACE
mark_seen_or_replace(rows, next_id, key, venue_name, event_title, event_date, t) ==
    Insert(rows, NewRow(key, venue_name, event_title, event_date, t),
           next_id, "replace")

\* mark_seen: INSERT OR IGNORE
mark_seen(rows, next_id, key, venue_name, event_title, event_date, t) ==
    Insert(rows, NewRow(key, venue_name, event_title, event_date, t),
           next_id, "ignore")

\* is_seen: the value returned
is_seen(rows, key) == HasKey(rows, key)

\* is_seen: the table afterwards, last_seen of the row found set to now
is_seen_update(rows, key, t) ==
    Seq1([r \in 1..Len(rows) |->
            IF rows[r].normalized_key = key
            THEN [rows[r] EXCEPT !.last_seen = t]
            ELSE rows[r]])

\* the keys "A|2025-06-29|gig" and "A|2025-06-30|gig" of venue "A"
DbKeys == {normalized_key(Event(<<71, 105, 103>>, d, <<65>>)) : d \in 1..2}

\* two titles with one normalized form: "Gig" and "gig!"
DbTitles == {<<71, 105, 103>>, <<103, 105, 103, 33>>}

\* the state after init_db on a new file: an empty table
InitDb ==
    /\ pc = "db"
    /\ IdleHelper
    /\ db = <<>>
    /\ now = 1
    /\ calls = <<>>
    /\ IdleNorm
    /\ IdleMerge
    /\ IdleEvent
    /\ IdleKeys
    /\ IdleExtract
    /\ IdleCal
    /\ IdleScrape

\* the ids handed out so far: one per successful INSERT
NextId(rows) == IF rows = <<>> THEN 1 ELSE rows[Len(rows)].id + 1

MarkSeen ==
    /\ pc = "db"
    /\ Len(calls) < MaxCalls
    /\ \E k \in DbKeys, title \in DbTitles :
          LET res == mark_seen(db, NextId(db), k, <<65>>, title, SubSeq(k, 3, 12), now)
          IN  /\ db' = res.rows
              /\ calls' = Append(calls, [op |-> "mark_seen", key |-> k, title |-> title,
                                         at |-> now, raised |-> res.raised,
                                         found |-> FALSE])
    /\ UNCHANGED <<pc, now, baseVars, helperVars, keysVars, extractVars, calVars, scrapeVars>>

IsSeen ==
    /\ pc = "db"
    /\ Len(calls) < MaxCalls
    /\ \E k \in DbKeys :
          /\ db' = is_seen_update(db, k, now)
          /\ calls' = Append(calls, [op |-> "is_seen", key |-> k, title |-> <<>>,
                                     at |-> now, raised |-> FALSE,
                                     found |-> is_seen(db, k)])
    /\ UNCHANGED <<pc, now, baseVars, helperVars, keysVars, extractVars, calVars, scrapeVars>>

\* time passes between two calls
Tick ==
    /\ pc = "db"
    /\ now < MaxClock
    /\ now' = now + 1
    /\ UNCHANGED <<pc, db, calls, baseVars, helperVars, keysVars, extractVars, calVars, scrapeVars>>

NextDb == MarkSeen \/ IsSeen \/ Tick

SpecDb == InitDb /\ [][NextDb]_vars

\* the calls of mark_seen with key k, by position
MarksOf(k) == {j \in 1..Len(calls) : calls[j].op = "mark_seen" /\ calls[j].key = k}

FirstMarkOf(k) == CHOOSE j \in MarksOf(k) : \A i \in MarksOf(k) : j <= i

\* C18: after any sequence of mark_seen and is_seen calls on a new store, no
\* call has raised, is_seen(k) has returned True exactly when mark_seen(k)
\* was called before it, there is exactly one row for each marked key and
\* none for another key, and the row of a key holds the metadata and the
\* first_seen time of the first mark_seen of that key.
SeenStoreIsKeySet ==
    pc = "db" =>
        /\ \A i \in 1..Len(calls) :
              /\ ~calls[i].raised
              /\ calls[i].op = "is_seen" =>
                    (calls[i].found <=> \E j \in MarksOf(calls[i].key) : j < i)
        /\ \A k \in DbKeys :
              Cardinality({r \in 1..Len(db) : db[r].normalized_key = k})
                  = IF MarksOf(k) = {} THEN 0 ELSE 1
        /\ \A r \in 1..Len(db) :
              /\ db[r].normalized_key \in DbKeys
              /\ MarksOf(db[r].normalized_key) # {}
              /\ db[r].event_title = calls[FirstMarkOf(db[r].normalized_key)].title
              /\ db[r].first_seen = calls[FirstMarkOf(db[r].normalized_key)].at

\* one key marked twice under two titles at two times, then looked up
SeenStoreIsKeySetWitness ==
    /\ pc = "db"
    /\ Len(calls) = 3
    /\ calls[1].op = "mark_seen" /\ calls[2].op = "mark_seen" /\ calls[3].op = "is_seen"
    /\ calls[1].key = calls[2].key /\ calls[2].key = calls[3].key
    /\ calls[1].title # calls[2].title
    /\ calls[1].at < calls[2].at
    /\ calls[3].found
    /\ Len(db) = 1

(***************************************************************************)
(* The calendar publisher (calendar.py): add_event                         *)
(***************************************************************************)
\* how a backend function ends: by raising, or by returning a value; and
\* whether the event was written to the calendar
Raises == [raised |-> TRUE, returned |-> FALSE, written |-> FALSE]
Returns(value, wrote) == [raised |-> FALSE, returned |-> value, written |-> wrote]

\* AppConfig.resolved_calendar_backend
resolved_calendar_backend(env) ==
    IF env.calendar_backend # "auto" THEN env.calendar_backend
    ELSE IF env.platform = "darwin" THEN "applescript"
    ELSE "ics"

\* _applescript_add_event: RuntimeError off macOS; osascript may fail to
\* run (io "raises": not found, timeout) or end with a non-zero return code
_applescript_add_event(env) ==
    IF env.platform # "darwin" THEN Raises
    ELSE IF env.io = "raises" THEN Raises
    ELSE IF env.io = "nonzero" THEN Returns(FALSE, FALSE)
    ELSE Returns(TRUE, TRUE)

\* _caldav_add_event: ImportError without the library, RuntimeError without
\* caldav settings, False when the calendar is not on the server; the
\* server calls may raise
_caldav_add_event(env) ==
    IF ~env.caldav_lib THEN Raises
    ELSE IF ~env.caldav_config THEN Raises
    ELSE IF env.io = "raises" THEN Raises
    ELSE IF ~env.calendar_found THEN Returns(FALSE, FALSE)
    ELSE Returns(TRUE, TRUE)

\* _ics_add_event: reading the old file or writing the new one may raise;
\* the write is a rename of a temporary file, so a failed one writes nothing
_ics_add_event(env) ==
    IF env.io = "raises" THEN Raises
    ELSE Returns(TRUE, TRUE)

\* the dispatch of add_event on the backend name
Dispatch(env) ==
    LET backend == resolved_calendar_backend(env)
    IN  IF backend = "applescript" THEN _applescript_add_event(env)
        ELSE IF backend = "caldav" THEN _caldav_add_event(env)
        ELSE IF backend = "ics" THEN _ics_add_event(env)
        ELSE Returns(FALSE, FALSE)

\* a mutation of add_event: no try/except around the dispatch
add_event_unguarded(env) == Dispatch(env)

\* add_event: try: dispatch; except Exception: return False
add_event(env) ==
    LET res == Dispatch(env)
    IN  IF res.raised THEN Returns(FALSE, res.written) ELSE res

\* the configurations and environments: the four backend names of AppConfig
\* and one that is none of them; io "nonzero" is the return code of
\* osascript and means nothing to the other backends
CalEnvs ==
    [calendar_backend : {"auto", "applescript", "caldav", "ics", "webcal"},
     platform : {"darwin", "linux"},
     caldav_lib : BOOLEAN,
     caldav_config : BOOLEAN,
     calendar_found : BOOLEAN,
     io : {"ok", "raises", "nonzero"}]

InitCal ==
    /\ pc = "ready"
    /\ IdleHelper
    /\ cal_in \in {Some(env) : env \in CalEnvs}
    /\ cal_out = None
    /\ IdleNorm
    /\ IdleMerge
    /\ IdleEvent
    /\ IdleKeys
    /\ IdleExtract
    /\ IdleDb
    /\ IdleScrape

AddEvent ==
    /\ pc = "ready"
    /\ cal_out' = Some(add_event(Val(cal_in)))
    /\ pc' = "done"
    /\ UNCHANGED <<baseVars, helperVars, keysVars, extractVars, dbVars, cal_in, scrapeVars>>

NextCal == AddEvent

SpecCal == InitCal /\ [][NextCal]_vars

\* C20: add_event never raises, and returns True when the event was written
\* and False otherwise: for an unknown backend name, a missing CalDAV
\* library or configuration, the AppleScript backend off macOS, a calendar
\* that is not found and a failed write.
AddEventNeverRaises ==
    pc = "done" /\ IsSet(cal_out) =>
        /\ ~Val(cal_out).raised
        /\ Val(cal_out).returned <=> Val(cal_out).written
        /\ LET env == Val(cal_in)
               backend == IF env.calendar_backend = "auto"
                          THEN (IF env.platform = "darwin" THEN "applescript" ELSE "ics")
                          ELSE env.calendar_backend
               failing ==
                   \/ backend \notin {"applescript", "caldav", "ics"}
                   \/ backend = "caldav"
                        /\ ~(env.caldav_lib /\ env.caldav_config /\ env.calendar_found)
                   \/ backend = "applescript" /\ env.platform # "darwin"
                   \/ backend = "applescript" /\ env.io = "nonzero"
                   \/ env.io = "raises"
           IN  Val(cal_out).returned <=> ~failing

\* the AppleScript backend configured on Linux: False, nothing raised
AddEventNeverRaisesWitness ==
    /\ pc = "done" /\ IsSet(cal_out)
    /\ Val(cal_in).calendar_backend = "applescript"
    /\ Val(cal_in).platform = "linux"
    /\ Val(cal_out) = [raised |-> FALSE, returned |-> FALSE, written |-> FALSE]

(***************************************************************************)
(* A scrape run (cli.py, _scrape_async)                                    *)
(***************************************************************************)
MaxVenues == 2
MaxScraped == 2

\* the parameters of db.mark_seen
MarkSeenParams ==
    {"db_path", "normalized_key", "venue_name", "event_title", "event_date",
     "calendar_event_id"}

\* the keyword arguments of the mark_seen call in _scrape_async
MarkSeenKeywords == {"event_json"}

\* a call binds its keyword arguments to parameters of the function; one
\* that names no parameter raises TypeError before the body runs
CallBinds(keywords, params) == keywords \subseteq params

\* a mutation of the branches after the seen-check: a seen event is not skipped
AfterSeenCheckNoSkip(found, dry_run) ==
    IF dry_run THEN "dry_run" ELSE "publish"

\* a mutation of the branches after the seen-check: dry_run is not tested
AfterSeenCheckNoDryRun(found, dry_run) ==
    IF found THEN "skip" ELSE "publish"

\* the branches of the event loop after is_seen: skip, dry run, publish
AfterSeenCheck(found, dry_run) ==
    IF found THEN "skip"
    ELSE IF dry_run THEN "dry_run"
    ELSE "publish"

\* what the LLM returns for a page of venue "A": records "Fest" on
\* 2025-06-29 and 2025-06-30, "Gig" on 2025-06-29, and a non-object element
ScrapedRecords ==
    {[is_object |-> TRUE, title |-> Some(t), date |-> Some(IsoFormat(d))] :
        t \in {<<70, 101, 115, 116>>}, d \in 1..2}
    \cup {[is_object |-> TRUE, title |-> Some(<<71, 105, 103>>), date |-> Some(IsoFormat(1))]}
    \cup {[is_object |-> FALSE, title |-> None, date |-> None]}

Pages == UNION {[1..n -> ScrapedRecords] : n \in 0..MaxScraped}

\* the venue and its location: "A" at "X"
TheVenue == [venue_name |-> <<65>>, venue_location |-> <<88>>]

\* the events a page of the venue can yield
ScrapedEvents ==
    {Val(ConstructEvent(r, TheVenue.venue_name, TheVenue.venue_location)) :
        r \in {x \in ScrapedRecords : x.is_object}}

\* the store and calendar a run finds: empty, or holding one event that an
\* earlier run published and marked (at time 0)
Earlier ==
    {[db |-> <<>>, calendar |-> <<>>]}
    \cup {[db |-> mark_seen(<<>>, 1, normalized_key(e), e.venue_name, e.title,
                            IsoFormat(e.date), 0).rows,
           calendar |-> <<e>>] : e \in ScrapedEvents}

KeysOf(rows) == {rows[r].normalized_key : r \in 1..Len(rows)}

\* the configuration of the run: the ics backend on Linux; io is the fate
\* of the file write
ScrapeEnv(io) ==
    [calendar_backend |-> "auto", platform |-> "linux", caldav_lib |-> FALSE,
     caldav_config |-> FALSE, calendar_found |-> FALSE, io |-> io]

InitScrape ==
    /\ pc = "start"
    /\ IdleHelper
    /\ \E before \in Earlier, dry \in BOOLEAN, n \in 1..MaxVenues :
          /\ db = before.db
          /\ calendar = before.calendar
          /\ run = [dry_run |-> dry, venues_left |-> n, events |-> <<>>,
                    queue |-> <<>>, added |-> 0, skipped |-> 0]
          /\ log = [calls |-> {}, seen_processed |-> 0,
                    keys_before |-> KeysOf(before.db),
                    calendar_before |-> before.calendar]
    /\ now = 1
    /\ calls = <<>>
    /\ IdleNorm
    /\ IdleMerge
    /\ IdleEvent
    /\ IdleKeys
    /\ IdleExtract
    /\ IdleCal

Logged(call, key, seen) ==
    [log EXCEPT !.calls = @ \cup {[call |-> call, key |-> key, seen |-> seen]}]

\* init_db (the table exists or is created empty), then ensure_calendar
\* unless dry_run; a failure of ensure_calendar ends the run with exit code 1
Setup ==
    /\ pc = "start"
    /\ IF run.dry_run
       THEN /\ pc' = "venue"
            /\ UNCHANGED log
       ELSE /\ \E ok \in BOOLEAN : pc' = IF ok THEN "venue" ELSE "exited"
            /\ log' = Logged("ensure_calendar", <<>>, FALSE)
    /\ UNCHANGED <<run, calendar, db, now, calls, baseVars, helperVars, keysVars, extractVars, calVars>>

\* one pass of the venue loop up to the event loop: scrape, then
\* extract_events; a failure of either goes on to the next venue
ScrapeVenue ==
    /\ pc = "venue"
    /\ run.venues_left > 0
    /\ \E scraped \in BOOLEAN, page \in Pages :
          LET res == extract_events(page, TheVenue)
          IN  IF ~scraped \/ res.raised
              THEN /\ run' = [run EXCEPT !.venues_left = @ - 1]
                   /\ pc' = "venue"
              ELSE /\ run' = [run EXCEPT !.venues_left = @ - 1,
                                         !.events = res.events,
                                         !.queue = res.events]
                   /\ pc' = "event"
    /\ UNCHANGED <<calendar, log, db, now, calls, baseVars, helperVars, keysVars, extractVars, calVars>>

\* the head of the event loop: key, is_seen, and the skip and dry-run branches
CheckSeen ==
    /\ pc = "event"
    /\ run.queue # <<>>
    /\ LET event == Head(run.queue)
           key == normalized_key(event)
           found == is_seen(db, key)
           branch == AfterSeenCheck(found, run.dry_run)
       IN  /\ db' = is_seen_update(db, key, now)
           /\ CASE branch = "skip" ->
                    /\ run' = [run EXCEPT !.skipped = @ + 1, !.queue = Tail(@)]
                    /\ log' = [Logged("skip", key, found)
                                  EXCEPT !.seen_processed = @ + (IF found THEN 1 ELSE 0)]
                    /\ pc' = "event"
                [] branch = "dry_run" ->
                    /\ run' = [run EXCEPT !.added = @ + 1, !.queue = Tail(@)]
                    /\ log' = [Logged("dry_run", key, found)
                                  EXCEPT !.seen_processed = @ + (IF found THEN 1 ELSE 0)]
                    /\ pc' = "event"
                [] OTHER ->
                    /\ log' = [log EXCEPT !.seen_processed = @ + (IF found THEN 1 ELSE 0)]
                    /\ pc' = "publish"
                    /\ UNCHANGED run
    /\ UNCHANGED <<calendar, now, calls, baseVars, helperVars, keysVars, extractVars, calVars>>

\* the rest of the event loop: add_event and, on success, the mark_seen
\* call, whose keyword argument event_json is no parameter of db.mark_seen:
\* the TypeError is caught nowhere and ends the run
Publish ==
    /\ pc = "publish"
    /\ \E io \in {"ok", "raises"} :
          LET event == Head(run.queue)
              key == normalized_key(event)
              res == add_event(ScrapeEnv(io))
              logged == Logged("add_event", key, key \in KeysOf(db))
          IN  /\ calendar' = IF res.written THEN Append(calendar, event) ELSE calendar
              /\ IF res.returned
                 THEN IF CallBinds(MarkSeenKeywords, MarkSeenParams)
                      THEN /\ db' = mark_seen(db, NextId(db), key, TheVenue.venue_name,
                                              event.title, IsoFormat(event.date), now).rows
                           /\ log' = [logged EXCEPT !.calls = @ \cup
                                        {[call |-> "mark_seen", key |-> key, seen |-> FALSE]}]
                           /\ run' = [run EXCEPT !.added = @ + 1, !.queue = Tail(@)]
                           /\ pc' = "event"
                      ELSE /\ log' = logged
                           /\ pc' = "crashed"
                           /\ UNCHANGED <<db, run>>
                 ELSE /\ log' = logged
                      /\ run' = [run EXCEPT !.queue = Tail(@)]
                      /\ pc' = "event"
                      /\ UNCHANGED db
    /\ UNCHANGED <<now, calls, baseVars, helperVars, keysVars, extractVars, calVars>>

\* the event loop is over: on to the next venue
VenueDone ==
    /\ pc = "event"
    /\ run.queue = <<>>
    /\ pc' = "venue"
    /\ UNCHANGED <<run, calendar, log, db, now, calls, baseVars, helperVars, keysVars, extractVars, calVars>>

\* the venue loop is over: the summary line
Finish ==
    /\ pc = "venue"
    /\ run.venues_left = 0
    /\ pc' = "finished"
    /\ UNCHANGED <<run, calendar, log, db, now, calls, baseVars, helperVars, keysVars, extractVars, calVars>>

NextScrape == Setup \/ ScrapeVenue \/ CheckSeen \/ Publish \/ VenueDone \/ Finish

SpecScrape == InitScrape /\ [][NextScrape]_vars

Scraping == pc \in {"start", "venue", "event", "publish", "finished", "exited", "crashed"}

Range(seq) == {seq[i] : i \in 1..Len(seq)}

\* C16: every event handed to add_event is an output of
\* merge_multiday_events applied to the events extracted for its venue.
PublishedAreMerged ==
    Scraping /\ pc = "publish" =>
        Head(run.queue) \in Range(merge_multiday_events(run.events))

\* C17: add_event is never called for an event whose key is in the seen
\* store when the event is processed; every such event takes the skip branch
\* and is counted in skipped.
SeenNeverPublished ==
    Scraping /\ pc # "start" =>
        /\ \A c \in log.calls : c.call = "add_event" => ~c.seen
        /\ \A c \in log.calls : c.seen => c.call = "skip"
        /\ run.skipped = log.seen_processed

\* a run that skipped a seen event and called add_event for an unseen one
SeenNeverPublishedWitness ==
    /\ Scraping /\ pc # "start"
    /\ run.skipped = 1
    /\ \E c \in log.calls : c.call = "skip" /\ c.seen
    /\ \E c \in log.calls : c.call = "add_event" /\ ~c.seen

\* C19: with --dry-run the run calls none of ensure_calendar, add_event and
\* mark_seen, and the calendar and the set of keys in the seen store stay as
\* the run found them.
DryRunWritesNothing ==
    Scraping /\ pc # "start" /\ run.dry_run =>
        /\ \A c \in log.calls : c.call \notin {"ensure_calendar", "add_event", "mark_seen"}
        /\ calendar = log.calendar_before
        /\ KeysOf(db) = log.keys_before

\* a finished dry run that would have added one event and skipped another
DryRunWritesNothingWitness ==
    /\ Scraping /\ pc = "finished" /\ run.dry_run
    /\ run.added >= 1
    /\ run.skipped >= 1

(***************************************************************************)
(* The merge engine: coverage and idempotence                              *)
(***************************************************************************)
\* events of one group ("Fest" at venue "A"), some spanning several days
SpanEvents ==
    {e \in {[Event(<<70, 101, 115, 116>>, d, <<65>>) EXCEPT !.end_date = ed] :
                d \in Days, ed \in {None} \cup {Some(x) : x \in Days}} :
        LastDay(e) >= e.date}

InitSpan ==
    /\ pc = "ready"
    /\ in_events \in UNION {[1..n -> SpanEvents] : n \in 0..MaxEvents}
    /\ out_events = None
    /\ IdleNorm
    /\ IdleEvent
    /\ IdleRest

SpecSpan == InitSpan /\ [][NextMerge]_vars

\* day d of group k is covered by an output event (go being GroupOf(Out))
CoveredByOutput(go, k, d) ==
    \E o \in 1..Len(Out) : go[o] = k /\ Out[o].date <= d /\ d <= LastDay(Out[o])

\* C25: for single-day inputs, duplicate dates allowed, the date of every
\* input event lies between date and end_date of some output event of the
\* same venue_name and normalized title.
NoOccurrenceLost ==
    Merged /\ SingleDay(in_events) =>
        LET gi == GroupOf(in_events)
            go == GroupOf(Out)
        IN  \A i \in 1..Len(in_events) : CoveredByOutput(go, gi[i], in_events[i].date)

\* days 1, 2, 2 of one listing: the outputs 1..2 and 2 cover all three records
NoOccurrenceLostWitness ==
    /\ Merged /\ SingleDay(in_events)
    /\ Len(in_events) = 3
    /\ in_events[1] = in_events[2]
    /\ in_events[3].date = in_events[1].date + 1
    /\ GroupOf(in_events)[3] = GroupOf(in_events)[1]
    /\ Len(Out) = 2

\* C26: for inputs in which events may already carry an end_date >= date,
\* every calendar day covered by an input event is covered by some output
\* event of the same venue_name and normalized title.
NeverShrinks ==
    Merged =>
        LET gi == GroupOf(in_events)
            go == GroupOf(Out)
        IN  \A i \in 1..Len(in_events) :
              \A d \in in_events[i].date..LastDay(in_events[i]) :
                  CoveredByOutput(go, gi[i], d)

\* C27: for single-day inputs, duplicate dates allowed, merging the output
\* again gives the output.
MergeIdempotent ==
    Merged /\ SingleDay(in_events) => merge_multiday_events(Out) = Out

(***************************************************************************)
(* Event: the end follows the start                                        *)
(***************************************************************************)
\* C28: for an Event whose end_date is unset or >= date and whose
\* default_duration_hours is at least 1, end_datetime is strictly later than
\* start_datetime; when end_time is set, end_datetime is at most 24 hours
\* after the start time of day on the last day.
EndAfterStart ==
    pc = "done" /\ IsSet(ev_dt) =>
        LET e == Val(ev)
            L == IF e.end_date # None THEN e.end_date[1] ELSE e.date
            S == Val(ev_dt).start - 1440 * e.date
        IN  L >= e.date /\ e.default_duration_hours >= 1 =>
              /\ Val(ev_dt).end > Val(ev_dt).start
              /\ e.end_time # None => Val(ev_dt).end <= 1440 * L + S + 1440

\* a one-day show from 21:00 to 01:00 ends on the next day
EndAfterStartWitness ==
    /\ pc = "done" /\ IsSet(ev_dt)
    /\ Val(ev).end_date = None
    /\ Val(ev).default_duration_hours = 3
    /\ Val(ev).show_time = Some(1260) /\ Val(ev).end_time = Some(60)
    /\ Val(ev_dt).end = Val(ev_dt).start + 240

(***************************************************************************)
(* normalized_key: one key per identity                                    *)
(***************************************************************************)
\* the identity of an event: venue_name, date, effective end date and
\* normalized title
SameIdentity(a, b) ==
    /\ a.venue_name = b.venue_name
    /\ a.date = b.date
    /\ LastDay(a) = LastDay(b)
    /\ _normalize(a.title) = _normalize(b.title)

\* C29: two Events have equal normalized_key() if and only if they have the
\* same venue_name, date, effective end date (unset counting as the date)
\* and normalized title, venue names with "|" or "." in them included.
KeyInjective ==
    KeysDone =>
        \A b \in KeyEvents :
            normalized_key(b) = Val(ev_keys).key <=> SameIdentity(Val(ev), b)

\* a two-day event at the venue named "A|2025-06-29.", whose key is shared
\* by the same event under another spelling of the title
KeyInjectiveWitness ==
    /\ KeysDone
    /\ Val(ev).venue_name = <<65, 124>> \o IsoFormat(1) \o <<46>>
    /\ Val(ev).date = 1 /\ Val(ev).end_date = Some(2)
    /\ \E b \in KeyEvents : b.title # Val(ev).title /\ normalized_key(b) = Val(ev_keys).key

(***************************************************************************)
(* _escape_applescript (calendar.py)                                       *)
(***************************************************************************)
MaxEscLen == 4

\* str.replace(old, new): the occurrences of old, found from left to right
\* without overlap, are replaced by new
RECURSIVE Replace(_, _, _)
Replace(s, old, new) ==
    IF Len(s) < Len(old) THEN s
    ELSE IF SubSeq(s, 1, Len(old)) = old
         THEN new \o Replace(SubSeq(s, Len(old) + 1, Len(s)), old, new)
         ELSE <<Head(s)>> \o Replace(Tail(s), old, new)

\* the replacements that remove null bytes and turn CRLF, CR, LF and tab
\* into a space
StripBreaks(s) ==
    Replace(Replace(Replace(Replace(Replace(s, <<0>>, <<>>),
        <<13, 10>>, <<32>>), <<13>>, <<32>>), <<10>>, <<32>>), <<9>>, <<32>>)

\* a mutation of _escape_applescript: quotes are escaped before backslashes
_escape_applescript_quotes_first(s) ==
    Replace(Replace(StripBreaks(s), <<34>>, <<92, 34>>), <<92>>, <<92, 92>>)

\* _escape_applescript: backslashes are doubled, then quotes escaped
_escape_applescript(s) ==
    Replace(Replace(StripBreaks(s), <<92>>, <<92, 92>>), <<34>>, <<92, 34>>)

\* null, tab, LF, CR, double quote, backslash and "A"
EscAlphabet == {0, 9, 10, 13, 34, 92, 65}

InitEscape ==
    /\ pc = "ready"
    /\ fn_arg \in {Some(s) : s \in UNION {[1..n -> EscAlphabet] : n \in 0..MaxEscLen}}
    /\ fn_result = None
    /\ IdleNorm
    /\ IdleMerge
    /\ IdleEvent
    /\ IdleKeys
    /\ IdleExtract
    /\ IdleDb
    /\ IdleCal
    /\ IdleScrape

Escape ==
    /\ pc = "ready"
    /\ fn_result' = Some(_escape_applescript(Val(fn_arg)))
    /\ pc' = "done"
    /\ UNCHANGED <<baseVars, keysVars, extractVars, dbVars, calVars, scrapeVars, fn_arg>>

NextEscape == Escape

SpecEscape == InitEscape /\ [][NextEscape]_vars

\* the number of consecutive backslashes that end right before position i
BackslashesBefore(s, i) ==
    LET others == {j \in 1..(i - 1) : s[j] # 92}
    IN  IF others = {} THEN i - 1
        ELSE i - 1 - (CHOOSE j \in others : \A k \in others : k <= j)

\* C23: the output of _escape_applescript holds no newline, carriage return,
\* tab or null character, and every double quote in it is immediately
\* preceded by an odd number of consecutive backslashes.
EscapedStaysInLiteral ==
    pc = "done" /\ IsSet(fn_result) =>
        LET out == Val(fn_result)
        IN  \A i \in 1..Len(out) :
              /\ out[i] \notin {0, 9, 10, 13}
              /\ out[i] = 34 => BackslashesBefore(out, i) % 2 = 1

\* a backslash, a quote and a CRLF become three backslashes, a quote, a space
EscapedStaysInLiteralWitness ==
    /\ pc = "done" /\ IsSet(fn_result)
    /\ Val(fn_arg) = <<92, 34, 13, 10>>
    /\ Val(fn_result) = <<92, 92, 92, 34, 32>>

(***************************************************************************)
(* _looks_like_spa_shell (scraper.py)                                      *)
(***************************************************************************)
MaxTokens == 4

\* A page is a sequence of markup tokens and text runs; a text run is given
\* by its number of characters, none of them white space or "<".
Tag(kind) == [kind |-> kind, chars |-> 0]
TextRun(n) == [kind |-> "text", chars |-> n]

\* <body>, </body>, <div id="root">, <div id="app">, </div>, <noscript>, a
\* text of 22 characters ("ShowsFriday: Jazz Night" without the tags) and
\* one of 2800 ("Event listing " * 200)
HtmlTokens ==
    {Tag(k) : k \in {"body", "/body", "div#root", "div#app", "/div", "noscript"}}
    \cup {TextRun(22), TextRun(2800)}

\* len(re.sub(r"<[^>]+>", "", ...)) of the tokens i..j: the tags go, the
\* text stays
RECURSIVE TextLen(_, _, _)
TextLen(html, i, j) ==
    IF i > j THEN 0 ELSE html[i].chars + TextLen(html, i + 1, j)

Positions(html, kinds) == {i \in 1..Len(html) : html[i].kind \in kinds}

\* _looks_like_spa_shell.  r"<body[^>]*>(.*)</body>" with DOTALL matches
\* from the first <body> to the last </body>; the indicators '<div
\* id="root"></div>' and '<div id="app"></div>' contain '<div id="root">'
\* and '<div id="app">', so the opening tag alone decides.
_looks_like_spa_shell(html) ==
    LET opens == Positions(html, {"body"})
        closes == Positions(html, {"/body"})
        body_match == \E i \in opens, j \in closes : i < j
        first == CHOOSE i \in opens : \A k \in opens : i <= k
        last == CHOOSE j \in closes : \A k \in closes : k <= j
    IN  IF body_match /\ TextLen(html, first + 1, last - 1) < 500
        THEN TRUE
        ELSE /\ Positions(html, {"div#root", "div#app"}) # {}
             /\ Positions(html, {"noscript"}) # {}

InitSpa ==
    /\ pc = "ready"
    /\ fn_arg \in {Some(h) : h \in UNION {[1..n -> HtmlTokens] : n \in 0..MaxTokens}}
    /\ fn_result = None
    /\ IdleNorm
    /\ IdleMerge
    /\ IdleEvent
    /\ IdleKeys
    /\ IdleExtract
    /\ IdleDb
    /\ IdleCal
    /\ IdleScrape

LooksLikeSpaShell ==
    /\ pc = "ready"
    /\ fn_result' = Some(_looks_like_spa_shell(Val(fn_arg)))
    /\ pc' = "done"
    /\ UNCHANGED <<baseVars, keysVars, extractVars, dbVars, calVars, scrapeVars, fn_arg>>

NextSpa == LooksLikeSpaShell

SpecSpa == InitSpa /\ [][NextSpa]_vars

\* the page has an empty root or app div
HasEmptyMount(html) ==
    \E i \in 1..(Len(html) - 1) :
        html[i].kind \in {"div#root", "div#app"} /\ html[i + 1].kind = "/div"

\* all the text of the page
AllText(html) == TextLen(html, 1, Len(html))

\* C22: _looks_like_spa_shell returns True only for a page with both little
\* visible text (under 500 characters) and an empty root or app div with a
\* noscript tag: a small page without such a div is not flagged, and a page
\* whose root div holds substantial text is not flagged.
SpaShellNeedsEmptyMount ==
    pc = "done" /\ IsSet(fn_result) /\ Val(fn_result) =>
        /\ AllText(Val(fn_arg)) < 500
        /\ HasEmptyMount(Val(fn_arg))
        /\ \E i \in 1..Len(Val(fn_arg)) : Val(fn_arg)[i].kind = "noscript"

(***************************************************************************)
(* scrape (scraper.py): fast HTTP fetch, then headless browser             *)
(***************************************************************************)
\* how a fetch ends: raised is "none" or the exception class, value is
\* "markdown" or "None"
Fetched(value) == [raised |-> "none", value |-> value]
Failed(exception) == [raised |-> exception, value |-> "None"]

\* scrape_fast.  _validate_url and the first client.get are under no try:
\* a ValueError or an httpx error leaves the function.  The fallback paths
\* after a 404/410 are fetched under try/except.
scrape_fast(env) ==
    IF ~env.url_ok THEN Failed("ValueError")
    ELSE IF env.get = "error" THEN Failed("HTTPError")
    ELSE IF env.get = "page" THEN Fetched("markdown")
    ELSE IF env.get = "missing" /\ env.fallback = "page" THEN Fetched("markdown")
    ELSE Fetched("None")

\* scrape_browser
scrape_browser(env) ==
    IF ~env.url_ok THEN Failed("ValueError")
    ELSE IF env.browser = "not installed" THEN Failed("ImportError")
    ELSE IF env.browser = "error" THEN Failed("Error")
    ELSE Fetched("markdown")

\* scrape: the result, and which of the two methods were attempted
scrape(env) ==
    IF env.requires_browser
    THEN [res |-> scrape_browser(env), fast |-> FALSE, browser |-> TRUE]
    ELSE LET result == scrape_fast(env)
         IN  IF result.raised # "none"
             THEN [res |-> result, fast |-> TRUE, browser |-> FALSE]
             ELSE IF result.value # "None"
                  THEN [res |-> result, fast |-> TRUE, browser |-> FALSE]
                  ELSE [res |-> IF scrape_browser(env).raised # "none"
                                THEN Failed("RuntimeError")
                                ELSE scrape_browser(env),
                        fast |-> TRUE, browser |-> TRUE]

\* the venue and what the network and the browser do: the first GET raises,
\* or answers 200 with a page, 200 with an SPA shell, 404/410, or another
\* status; a fallback path answers with a page or none does; Playwright
\* works, is not installed, or fails
ScrapeCases ==
    [requires_browser : BOOLEAN,
     url_ok : BOOLEAN,
     get : {"error", "page", "shell", "missing", "status"},
     fallback : {"page", "none"},
     browser : {"ok", "not installed", "error"}]

InitFetch ==
    /\ pc = "ready"
    /\ fn_arg \in {Some(env) : env \in ScrapeCases}
    /\ fn_result = None
    /\ IdleNorm
    /\ IdleMerge
    /\ IdleEvent
    /\ IdleKeys
    /\ IdleExtract
    /\ IdleDb
    /\ IdleCal
    /\ IdleScrape

Fetch ==
    /\ pc = "ready"
    /\ fn_result' = Some(scrape(Val(fn_arg)))
    /\ pc' = "done"
    /\ UNCHANGED <<baseVars, keysVars, extractVars, dbVars, calVars, scrapeVars, fn_arg>>

NextFetch == Fetch

SpecFetch == InitFetch /\ [][NextFetch]_vars

\* the fast fetch yields usable content: a page at the URL, or at a fallback
\* path after a 404/410
FastHasContent(env) ==
    /\ env.url_ok
    /\ \/ env.get = "page"
       \/ env.get = "missing" /\ env.fallback = "page"

\* C21: for a URL that passes validation: without requires_browser the fast
\* fetch is tried first and the browser is used whenever the fast fetch
\* yields no usable content, a failed HTTP request included; scrape raises
\* RuntimeError only when both methods have failed; with requires_browser
\* the fast fetch is not tried.
ScrapeFallsBack ==
    pc = "done" /\ IsSet(fn_result) /\ Val(fn_arg).url_ok =>
        LET env == Val(fn_arg)
            out == Val(fn_result)
        IN  /\ env.requires_browser => ~out.fast
            /\ ~env.requires_browser =>
                  /\ out.fast
                  /\ out.browser <=> ~FastHasContent(env)
            /\ out.res.raised = "RuntimeError" =>
                  ~FastHasContent(env) /\ env.browser # "ok"

(***************************************************************************)
(* A scrape run: publish, then mark                                        *)
(***************************************************************************)
\* C24: in a run that is not a dry run, once add_event has returned True
\* for an event its key is in the seen store before the next event is
\* processed, and the run goes on: it does not end in an exception.
MarkedAfterAdd ==
    Scraping =>
        /\ pc # "crashed"
        /\ pc # "publish" =>
              \A i \in 1..Len(calendar) : normalized_key(calendar[i]) \in KeysOf(db)

(***************************************************************************)
(* Two scrape runs on one seen store and one calendar                      *)
(***************************************************************************)
Runs == {1, 2}

\* the pages of the two runs: records "Fest" on 2025-06-29 and 2025-06-30
SharedPages ==
    UNION {[1..n -> {r \in ScrapedRecords :
                        r.is_object /\ r.title = Some(<<70, 101, 115, 116>>)}] :
           n \in 0..MaxScraped}

SharedKeys ==
    {normalized_key(Val(ConstructEvent(r, TheVenue.venue_name, TheVenue.venue_location))) :
        r \in {x \in ScrapedRecords : x.is_object}}

\* two runs of one venue each, started on an empty store; log counts the
\* add_event calls of each run per key
InitRuns ==
    /\ pc = "runs"
    /\ run = [r \in Runs |-> [pc |-> "start", dry_run |-> FALSE, venues_left |-> 1,
                              events |-> <<>>, queue |-> <<>>, added |-> 0,
                              skipped |-> 0]]
    /\ db = <<>>
    /\ calendar = <<>>
    /\ log = [r \in Runs |-> [k \in SharedKeys |-> 0]]
    /\ now = 1
    /\ calls = <<>>
    /\ IdleNorm
    /\ IdleMerge
    /\ IdleEvent
    /\ IdleKeys
    /\ IdleExtract
    /\ IdleCal
    /\ IdleHelper

\* init_db and ensure_calendar of run r
RunSetup(r) ==
    /\ pc = "runs"
    /\ run[r].pc = "start"
    /\ \E ok \in BOOLEAN :
          run' = [run EXCEPT ![r].pc = IF ok THEN "venue" ELSE "exited"]
    /\ UNCHANGED <<pc, db, calendar, log, now, calls, baseVars, helperVars, keysVars,
                   extractVars, calVars>>

\* scrape and extract_events of run r
RunScrapeVenue(r) ==
    /\ pc = "runs"
    /\ run[r].pc = "venue"
    /\ run[r].venues_left > 0
    /\ \E scraped \in BOOLEAN, page \in SharedPages :
          LET res == extract_events(page, TheVenue)
          IN  IF ~scraped \/ res.raised
              THEN run' = [run EXCEPT ![r].venues_left = @ - 1]
              ELSE run' = [run EXCEPT ![r].venues_left = @ - 1,
                                      ![r].events = res.events,
                                      ![r].queue = res.events,
                                      ![r].pc = "event"]
    /\ UNCHANGED <<pc, db, calendar, log, now, calls, baseVars, helperVars, keysVars,
                   extractVars, calVars>>

\* is_seen of run r for the next event: one transaction on the store
RunCheckSeen(r) ==
    /\ pc = "runs"
    /\ run[r].pc = "event"
    /\ run[r].queue # <<>>
    /\ LET key == normalized_key(Head(run[r].queue))
           branch == AfterSeenCheck(is_seen(db, key), run[r].dry_run)
       IN  /\ db' = is_seen_update(db, key, now)
           /\ run' = CASE branch = "skip" ->
                            [run EXCEPT ![r].skipped = @ + 1, ![r].queue = Tail(@)]
                       [] branch = "dry_run" ->
                            [run EXCEPT ![r].added = @ + 1, ![r].queue = Tail(@)]
                       [] OTHER -> [run EXCEPT ![r].pc = "publish"]
    /\ UNCHANGED <<pc, calendar, log, now, calls, baseVars, helperVars, keysVars,
                   extractVars, calVars>>

\* add_event of run r and, on success, its mark_seen call
RunPublish(r) ==
    /\ pc = "runs"
    /\ run[r].pc = "publish"
    /\ \E io \in {"ok", "raises"} :
          LET event == Head(run[r].queue)
              key == normalized_key(event)
              res == add_event(ScrapeEnv(io))
          IN  /\ calendar' = IF res.written THEN Append(calendar, event) ELSE calendar
              /\ log' = [log EXCEPT ![r][key] = @ + 1]
              /\ IF res.returned
                 THEN IF CallBinds(MarkSeenKeywords, MarkSeenParams)
                      THEN /\ db' = mark_seen(db, NextId(db), key, TheVenue.venue_name,
                                              event.title, IsoFormat(event.date), now).rows
                           /\ run' = [run EXCEPT ![r].added = @ + 1,
                                                 ![r].queue = Tail(@),
                                                 ![r].pc = "event"]
                      ELSE /\ run' = [run EXCEPT ![r].pc = "crashed"]
                           /\ UNCHANGED db
                 ELSE /\ run' = [run EXCEPT ![r].queue = Tail(@), ![r].pc = "event"]
                      /\ UNCHANGED db
    /\ UNCHANGED <<pc, now, calls, baseVars, helperVars, keysVars, extractVars, calVars>>

RunVenueDone(r) ==
    /\ pc = "runs"
    /\ run[r].pc = "event"
    /\ run[r].queue = <<>>
    /\ run' = [run EXCEPT ![r].pc = "venue"]
    /\ UNCHANGED <<pc, db, calendar, log, now, calls, baseVars, helperVars, keysVars,
                   extractVars, calVars>>

RunFinish(r) ==
    /\ pc = "runs"
    /\ run[r].pc = "venue"
    /\ run[r].venues_left = 0
    /\ run' = [run EXCEPT ![r].pc = "finished"]
    /\ UNCHANGED <<pc, db, calendar, log, now, calls, baseVars, helperVars, keysVars,
                   extractVars, calVars>>

NextRuns ==
    \E r \in Runs :
        \/ RunSetup(r)
        \/ RunScrapeVenue(r)
        \/ RunCheckSeen(r)
        \/ RunPublish(r)
        \/ RunVenueDone(r)
        \/ RunFinish(r)

SpecRuns == InitRuns /\ [][NextRuns]_vars

\* C30: whatever the interleaving of two runs that share the seen store and
\* extract an event with the same key, add_event is not called for that key
\* by both of them.
AddEventOncePerKey ==
    pc = "runs" => \A k \in SharedKeys : ~(log[1][k] >= 1 /\ log[2][k] >= 1)

====
